---- MODULE Spec2Model ----
(***************************************************************************)
(* A model of two pieces of the dashboard front end:                       *)
(*                                                                         *)
(*   - the DevWorkspacePlugins store slice (src/store/DevWorkspacePlugins) *)
(*     : the reducer, the module-level unloadedState object and the        *)
(*     requestDwDevfiles thunk;                                            *)
(*   - the ErrorBoundary component (src/Layout/ErrorBoundary): its state,  *)
(*     its countdown timer, its handlers and its render method.            *)
(*                                                                         *)
(* The two pieces do not interact; each has its own specification          *)
(* (StoreSpec, BoundarySpec) over the module's variables.                  *)
(***************************************************************************)
EXTENDS Integers, Sequences, FiniteSets, TLC

VARIABLES
    \* ---- store slice ----
    state,        \* the store's current state for this slice (or undefined)
    arr,          \* contents of the one array object, unloadedState.plugins
    pc,           \* per requestDwDevfiles invocation: position in the thunk
    sent,         \* per invocation: the signal types it has dispatched
    fetched,      \* per invocation: how its fetchDevfile call settled
    log,          \* history: every reducer application on the current store
    stores,       \* history: how many stores have been created
    \* ---- error boundary ----
    mounted,      \* the component instance is mounted
    bstate,       \* this.state of the component
    timers,       \* ids of the live window.setInterval timers
    toDispose,    \* the DisposableCollection: interval ids it will clear
    nextId,       \* next id window.setInterval hands out
    ticks,        \* history: interval callbacks run so far
    reloads,      \* history: calls of window.location.reload()
    reloadTicks,  \* history: the tick numbers at which the timer reloaded
    pageAlive,    \* the document has not been replaced by a reload yet
    clicks,       \* history: clicks on the Reload now link
    toggles,      \* history: clicks on the View stack / Hide stack link
    stopSnap,     \* history: the counters at the first Stop countdown click
    unmountSnap   \* history: the counters at componentWillUnmount

storeVars == <<state, arr, pc, sent, fetched, log, stores>>
boundaryVars == <<mounted, bstate, timers, toDispose, nextId, ticks, reloads,
                  reloadTicks, pageAlive, clicks, toggles, stopSnap,
                  unmountSnap>>
vars == <<storeVars, boundaryVars>>

(***************************************************************************)
(* Bounds of the model.                                                    *)
(***************************************************************************)
MaxCalls == 2       \* requestDwDevfiles invocations
MaxSignals == 3     \* reducer applications per store
MaxStores == 2      \* stores created (the first one and re-creations)
MaxOvershoot == 2   \* timer ticks followed after reloadAfter has reached 0
MaxClicks == 1      \* clicks on the Reload now link
MaxToggles == 2     \* clicks on the View stack / Hide stack link

(***************************************************************************)
(*                          THE STORE SLICE                                *)
(***************************************************************************)

\* fetchDevfile resolves to a plugin identifier (a string).
PluginIds == {"a", "b"}

REQUEST_DW_PLUGIN == "REQUEST_DW_PLUGIN"
RECEIVE_DW_PLUGIN == "RECEIVE_DW_PLUGIN"
\* A signal type of the rest of the application: every reducer of a store is
\* handed the signals of the other slices as well.
INIT == "@@redux/INIT"
OtherTypes == {"OTHER_SLICE"}

RequestSignal == [type |-> REQUEST_DW_PLUGIN, plugin |-> ""]
ReceiveSignal(p) == [type |-> RECEIVE_DW_PLUGIN, plugin |-> p]
OtherSignal(t) == [type |-> t, plugin |-> ""]
Signals == {RequestSignal} \cup {ReceiveSignal(p) : p \in PluginIds}
              \cup {OtherSignal(t) : t \in OtherTypes}

\* A JavaScript value held in the plugins property: a reference to the array
\* object of unloadedState (the only array the module ever creates), or a
\* number.
ArrayRef == [kind |-> "ref", n |-> 0]
Number(k) == [kind |-> "number", n |-> k]

\* The value undefined, as a state.
Undefined == [tag |-> "undefined", isLoading |-> FALSE, plugins |-> Number(0)]

\* const unloadedState = { isLoading: false, plugins: [] }: one object whose
\* plugins property refers to one array object, created at module load.
unloadedState == [tag |-> "state", isLoading |-> FALSE, plugins |-> ArrayRef]

Includes(s, x) == \E i \in 1..Len(s) : s[i] = x

\* What a reducer application gives: it threw, or it returned ret; arr is the
\* content of the array object afterwards.
Outcome(threw, ret, a) == [threw |-> threw, ret |-> ret, arr |-> a]

\* case 'REQUEST_DW_PLUGIN': Object.assign({}, state, { isLoading: true })
ReduceRequestKeepsFlag(st, a) == Outcome(FALSE, st, a)
ReduceRequest(st, a) == Outcome(FALSE, [st EXCEPT !.isLoading = TRUE], a)

\* case 'RECEIVE_DW_PLUGIN':
\*   Object.assign({}, state, { plugins: state.plugins.includes(action.plugin)
\*       ? state.plugins : state.plugins.push(action.plugin) })
\* A number has no includes method, so the call throws a TypeError.
\* Array.prototype.push appends in place and returns the new length.
ReduceReceiveClearsLoading(st, p, a) ==
    IF st.plugins.kind # "ref"
    THEN Outcome(TRUE, Undefined, a)
    ELSE IF Includes(a, p)
         THEN Outcome(FALSE, [st EXCEPT !.isLoading = FALSE], a)
         ELSE Outcome(FALSE, [st EXCEPT !.isLoading = FALSE,
                                        !.plugins = Number(Len(a) + 1)],
                      Append(a, p))
ReduceReceive(st, p, a) ==
    IF st.plugins.kind # "ref"
    THEN Outcome(TRUE, Undefined, a)
    ELSE IF Includes(a, p)
         THEN Outcome(FALSE, [st EXCEPT !.plugins = st.plugins], a)
         ELSE Outcome(FALSE, [st EXCEPT !.plugins = Number(Len(a) + 1)],
                      Append(a, p))

\* The reducer: undefined state gives unloadedState; the switch has the two
\* cases and no default, so any other signal type falls off the end of the
\* function, which returns undefined.
reducer(st, action, a) ==
    IF st.tag = "undefined" THEN Outcome(FALSE, unloadedState, a)
    ELSE IF action.type = REQUEST_DW_PLUGIN THEN ReduceRequest(st, a)
    ELSE IF action.type = RECEIVE_DW_PLUGIN
         THEN ReduceReceive(st, action.plugin, a)
    ELSE Outcome(FALSE, Undefined, a)

\* One entry of the history of reducer applications; by is the invocation
\* of requestDwDevfiles that dispatched the signal, 0 for any other dispatcher.
LogEntry(action, by, r) ==
    [sig |-> action, by |-> by, pre |-> state, preArr |-> arr,
     threw |-> r.threw, ret |-> r.ret, arr |-> r.arr]

\* The histories followed: every history of the signals of the invocations
\* alone, and the histories with other dispatchers up to MaxSignals signals.
ThunksOnly == \A k \in 1..Len(log) : log[k].by # 0
WithinBounds(by) ==
    Len(log) < MaxSignals \/ (by # 0 /\ ThunksOnly)

\* dispatch(action) of the store: the state becomes what the reducer returns;
\* when the reducer throws the state is kept and the exception propagates.
Dispatch(action, by) ==
    LET r == reducer(state, action, arr) IN
    /\ WithinBounds(by)
    /\ state' = IF r.threw THEN state ELSE r.ret
    /\ arr' = r.arr
    /\ log' = Append(log, LogEntry(action, by, r))

DispatchThrows(action) == reducer(state, action, arr).threw

Calls == 1..MaxCalls

StoreInit ==
    /\ state = unloadedState
    /\ arr = <<>>
    /\ pc = [i \in Calls |-> "idle"]
    /\ sent = [i \in Calls |-> <<>>]
    /\ fetched = [i \in Calls |-> "pending"]
    /\ log = <<>>
    /\ stores = 1

\* A new store over the same module: its first state is reducer(undefined).
CreateStore ==
    /\ stores < MaxStores
    /\ \A i \in Calls : pc[i] # "fetching"
    /\ state' = reducer(Undefined, OtherSignal(INIT), arr).ret
    /\ arr' = reducer(Undefined, OtherSignal(INIT), arr).arr
    /\ log' = <<>>
    /\ stores' = stores + 1
    /\ UNCHANGED <<pc, sent, fetched>>
    /\ UNCHANGED boundaryVars

\* Any signal of the application reaches the reducer.
DispatchSignal(action) ==
    /\ Dispatch(action, 0)
    /\ UNCHANGED <<pc, sent, fetched, stores>>
    /\ UNCHANGED boundaryVars

\* requestDwDevfiles(url), up to the await: dispatch REQUEST, start the fetch.
RequestDwDevfiles(i) ==
    /\ pc[i] = "idle"
    /\ Dispatch(RequestSignal, i)
    /\ pc' = [pc EXCEPT ![i] = "fetching"]
    /\ sent' = [sent EXCEPT ![i] = Append(@, REQUEST_DW_PLUGIN)]
    /\ UNCHANGED <<fetched, stores>>
    /\ UNCHANGED boundaryVars

\* The fetch resolved with plugin p: dispatch RECEIVE inside the try block; an
\* exception of the dispatch is caught and rethrown wrapped.
FetchResolved(i, p) ==
    /\ pc[i] = "fetching"
    /\ Dispatch(ReceiveSignal(p), i)
    /\ pc' = [pc EXCEPT ![i] =
                 IF DispatchThrows(ReceiveSignal(p)) THEN "rejected"
                 ELSE "resolved"]
    /\ sent' = [sent EXCEPT ![i] = Append(@, RECEIVE_DW_PLUGIN)]
    /\ fetched' = [fetched EXCEPT ![i] = p]
    /\ UNCHANGED stores
    /\ UNCHANGED boundaryVars

FetchRejectedSwallowed(i) ==
    /\ pc[i] = "fetching"
    /\ pc' = [pc EXCEPT ![i] = "resolved"]
    /\ fetched' = [fetched EXCEPT ![i] = "failed"]
    /\ UNCHANGED <<state, arr, sent, log, stores>>
    /\ UNCHANGED boundaryVars

\* The fetch failed: catch (e) { throw new Error(...) }.
FetchRejected(i) ==
    /\ pc[i] = "fetching"
    /\ pc' = [pc EXCEPT ![i] = "rejected"]
    /\ fetched' = [fetched EXCEPT ![i] = "failed"]
    /\ UNCHANGED <<state, arr, sent, log, stores>>
    /\ UNCHANGED boundaryVars

StoreNext ==
    \/ CreateStore
    \/ \E action \in Signals : DispatchSignal(action)
    \/ \E i \in Calls : RequestDwDevfiles(i)
    \/ \E i \in Calls, p \in PluginIds : FetchResolved(i, p)
    \/ \E i \in Calls : FetchRejected(i)

\* The signals the slice itself knows: REQUEST and RECEIVE, from the
\* invocations of requestDwDevfiles and from any other dispatcher.
KnownSignals == {RequestSignal} \cup {ReceiveSignal(p) : p \in PluginIds}
KnownNext ==
    \/ \E action \in KnownSignals : DispatchSignal(action)
    \/ \E i \in Calls : RequestDwDevfiles(i)
    \/ \E i \in Calls, p \in PluginIds : FetchResolved(i, p)
    \/ \E i \in Calls : FetchRejected(i)

(***************************************************************************)
(*                   PROPERTIES OF THE STORE SLICE                         *)
(***************************************************************************)

\* The distinct elements of s, in order of first occurrence.
RECURSIVE Dedup(_)
Dedup(s) ==
    IF s = <<>> THEN <<>>
    ELSE LET d == Dedup(SubSeq(s, 1, Len(s) - 1)) IN
         IF Includes(d, s[Len(s)]) THEN d ELSE Append(d, s[Len(s)])

\* The identifiers of the RECEIVE signals of the history, in order.
Received == [i \in 1..Len(log) |-> log[i].sig.plugin]
OnlyReceives == \A i \in 1..Len(log) : log[i].sig.type = RECEIVE_DW_PLUGIN

\* The plugins property of st is a list holding exactly items.
PluginsAre(st, a, items) ==
    st.tag = "state" /\ st.plugins.kind = "ref" /\ a = items

\* C1: on the first store, after any sequence of RECEIVE signals and nothing
\* else, plugins is the list of the distinct identifiers received, in order of
\* first occurrence.
C1_PluginsAreDistinctReceived ==
    (stores = 1 /\ OnlyReceives) => PluginsAre(state, arr, Dedup(Received))

\* C2: whenever RECEIVE(p) is applied twice in a row, neither application
\* fails and the second one returns the same plugins list as the first.
C2_ReceiveIdempotent ==
    \A i \in 2..Len(log) :
        (/\ log[i].sig.type = RECEIVE_DW_PLUGIN
         /\ log[i - 1].sig = log[i].sig
         /\ log[i - 1].pre.tag = "state")
        => /\ ~log[i - 1].threw /\ ~log[i].threw
           /\ PluginsAre(log[i - 1].ret, log[i - 1].arr, log[i - 1].arr)
           /\ PluginsAre(log[i].ret, log[i].arr, log[i - 1].arr)

\* C3: a signal that is neither REQUEST nor RECEIVE, applied to a defined
\* state, returns that state: isLoading and plugins are unchanged.
C3_UnknownSignalKeepsState ==
    \A i \in 1..Len(log) :
        (/\ log[i].sig.type \notin {REQUEST_DW_PLUGIN, RECEIVE_DW_PLUGIN}
         /\ log[i].pre.tag = "state")
        => /\ ~log[i].threw
           /\ log[i].ret = log[i].pre
           /\ log[i].arr = log[i].preArr

\* C4: REQUEST applied to a defined state, whatever its isLoading, returns a
\* state with isLoading true and the plugins of the state it was applied to.
C4_RequestSetsLoading ==
    \A i \in 1..Len(log) :
        (log[i].sig.type = REQUEST_DW_PLUGIN /\ log[i].pre.tag = "state")
        => /\ ~log[i].threw
           /\ log[i].ret.tag = "state"
           /\ log[i].ret.isLoading = TRUE
           /\ log[i].ret.plugins = log[i].pre.plugins
           /\ log[i].arr = log[i].preArr
           /\ state = log[Len(log)].ret \/ i < Len(log)

\* C4's case: REQUEST was applied to a state already loading, and to one not
\* loading, with a plugin already received.
C4_Witness ==
    /\ \E i \in 1..Len(log) :
          /\ log[i].sig.type = REQUEST_DW_PLUGIN
          /\ log[i].pre.tag = "state" /\ log[i].pre.isLoading
          /\ log[i].preArr # <<>>
    /\ \E i \in 1..Len(log) :
          /\ log[i].sig.type = REQUEST_DW_PLUGIN
          /\ log[i].pre.tag = "state" /\ ~log[i].pre.isLoading

\* C5: the step in which the fetch of invocation i fails dispatches nothing
\* (no reducer application, state and plugins as before), ends the invocation
\* rejected, and leaves REQUEST as the only signal the invocation ever sent.
C5_FailedFetchOnlyRaises ==
    /\ [][\A i \in Calls :
             (fetched[i] = "pending" /\ fetched'[i] = "failed")
             => /\ state' = state /\ arr' = arr /\ log' = log
                /\ pc'[i] = "rejected"
                /\ sent'[i] = <<REQUEST_DW_PLUGIN>>]_vars
    /\ [](\A i \in Calls :
             fetched[i] = "failed"
             => pc[i] = "rejected" /\ sent[i] = <<REQUEST_DW_PLUGIN>>)

\* C5's case: a fetch has failed in a store that already holds a plugin.
C5_Witness ==
    \E i \in Calls :
        /\ fetched[i] = "failed" /\ pc[i] = "rejected"
        /\ arr # <<>>
        /\ state.tag = "state" /\ state.isLoading

\* The identifiers of the RECEIVE signals of the history, in the order in
\* which they were dispatched: the order in which the fetches completed.
RECURSIVE CompletionOrder(_)
CompletionOrder(k) ==
    IF k = 0 THEN <<>>
    ELSE IF log[k].sig.type = RECEIVE_DW_PLUGIN
         THEN Append(CompletionOrder(k - 1), log[k].sig.plugin)
         ELSE CompletionOrder(k - 1)

\* Every invocation dispatched its REQUEST before any fetch completed, and
\* every fetch has resolved, each with another identifier.
AllInFlightThenFetched ==
    /\ stores = 1 /\ ThunksOnly
    /\ Len(log) = 2 * MaxCalls
    /\ \A k \in 1..MaxCalls : log[k].sig.type = REQUEST_DW_PLUGIN
    /\ \A i \in Calls : fetched[i] \in PluginIds
    /\ \A i, j \in Calls : i # j => fetched[i] # fetched[j]

\* C14: when all invocations were in flight together and all their fetches
\* resolved with distinct identifiers, every invocation has resolved and
\* plugins is the list of the identifiers in the order of completion.
C14_ConcurrentFetchesAllListed ==
    AllInFlightThenFetched
    => /\ \A i \in Calls : pc[i] = "resolved"
       /\ PluginsAre(state, arr, CompletionOrder(Len(log)))

NoDuplicates(s) == \A i, j \in 1..Len(s) : s[i] = s[j] => i = j
IsPrefix(s, t) == Len(s) <= Len(t) /\ SubSeq(t, 1, Len(s)) = s

\* C15: in every state plugins is a list without duplicates, and every
\* reducer application returns a state whose plugins list extends the list of
\* the state it was applied to.
C15_PluginsGrowWithoutDuplicates ==
    /\ PluginsAre(state, arr, arr) /\ NoDuplicates(arr)
    /\ \A k \in 1..Len(log) :
          /\ ~log[k].threw
          /\ PluginsAre(log[k].ret, log[k].arr, log[k].arr)
          /\ IsPrefix(log[k].preArr, log[k].arr)

\* C16: RECEIVE applied to a state does not modify that state: the list its
\* plugins property holds has the same content after the call as before.
C16_ReceiveLeavesPriorState ==
    \A k \in 1..Len(log) :
        (/\ log[k].sig.type = RECEIVE_DW_PLUGIN
         /\ log[k].pre.tag = "state"
         /\ log[k].pre.plugins.kind = "ref")
        => log[k].arr = log[k].preArr

\* C17: the reducer called with an undefined state returns
\* {isLoading: false, plugins: []}: a store created later starts there, and so
\* does a store whose state has become undefined.
C17_UndefinedStateGivesEmptyState ==
    /\ (stores > 1 /\ log = <<>>)
       => (PluginsAre(state, arr, <<>>) /\ ~state.isLoading)
    /\ \A k \in 1..Len(log) :
          log[k].pre.tag = "undefined"
          => /\ ~log[k].threw
             /\ PluginsAre(log[k].ret, log[k].arr, <<>>)
             /\ ~log[k].ret.isLoading

RELOAD_TIMEOUT_SEC == 30

\* Error messages, as sequences of characters.
\* "Loading chunk 42 failed."
MsgChunk42 ==
    <<"L", "o", "a", "d", "i", "n", "g", " ", "c", "h", "u", "n", "k", " ",
      "4", "2", " ", "f", "a", "i", "l", "e", "d", ".">>
\* "Network error"
MsgNetwork ==
    <<"N", "e", "t", "w", "o", "r", "k", " ", "e", "r", "r", "o", "r">>
\* "LOADING CHUNK 7 FAILED"
MsgUpper ==
    <<"L", "O", "A", "D", "I", "N", "G", " ", "C", "H", "U", "N", "K", " ",
      "7", " ", "F", "A", "I", "L", "E", "D">>
\* "Loading chunk failed"
MsgNoDigits ==
    <<"L", "o", "a", "d", "i", "n", "g", " ", "c", "h", "u", "n", "k", " ",
      "f", "a", "i", "l", "e", "d">>
\* "x: loading chunk 105 failed (y)"
MsgEmbedded ==
    <<"x", ":", " ", "l", "o", "a", "d", "i", "n", "g", " ", "c", "h", "u",
      "n", "k", " ", "1", "0", "5", " ", "f", "a", "i", "l", "e", "d", " ",
      "(", "y", ")">>
\* "Loading chunk 4a failed"
MsgMixedDigits ==
    <<"L", "o", "a", "d", "i", "n", "g", " ", "c", "h", "u", "n", "k", " ",
      "4", "a", " ", "f", "a", "i", "l", "e", "d">>
\* "Loading chunk 42 fail"
MsgTruncated ==
    <<"L", "o", "a", "d", "i", "n", "g", " ", "c", "h", "u", "n", "k", " ",
      "4", "2", " ", "f", "a", "i", "l">>
\* "Loading chunk  failed"
MsgTwoSpaces ==
    <<"L", "o", "a", "d", "i", "n", "g", " ", "c", "h", "u", "n", "k", " ",
      " ", "f", "a", "i", "l", "e", "d">>
\* ""
MsgEmpty == <<>>

Messages ==
    {MsgChunk42, MsgNetwork, MsgUpper, MsgNoDigits, MsgEmbedded,
     MsgMixedDigits, MsgTruncated, MsgTwoSpaces, MsgEmpty}

UpperCase ==
    <<"A", "B", "C", "D", "E", "F", "G", "H", "I", "J", "K", "L", "M", "N",
      "O", "P", "Q", "R", "S", "T", "U", "V", "W", "X", "Y", "Z">>
LowerCase ==
    <<"a", "b", "c", "d", "e", "f", "g", "h", "i", "j", "k", "l", "m", "n",
      "o", "p", "q", "r", "s", "t", "u", "v", "w", "x", "y", "z">>
Digits == {"0", "1", "2", "3", "4", "5", "6", "7", "8", "9"}

\* Case folding of the i flag.
Fold(c) ==
    IF \E k \in 1..Len(UpperCase) : UpperCase[k] = c
    THEN LowerCase[CHOOSE k \in 1..Len(UpperCase) : UpperCase[k] = c]
    ELSE c

\* The literal parts of /loading chunk [\d]+ failed/i.
PatternHead ==
    <<"l", "o", "a", "d", "i", "n", "g", " ", "c", "h", "u", "n", "k", " ">>
PatternTail == <<" ", "f", "a", "i", "l", "e", "d">>

\* The literal lit matches msg at position i, ignoring case.
LiteralAt(msg, i, lit) ==
    /\ i + Len(lit) - 1 <= Len(msg)
    /\ \A k \in 1..Len(lit) : Fold(msg[i + k - 1]) = lit[k]

LiteralAtCaseSensitive(msg, i, lit) ==
    /\ i + Len(lit) - 1 <= Len(msg)
    /\ \A k \in 1..Len(lit) : msg[i + k - 1] = lit[k]

\* /loading chunk [\d]+ failed/i.test(error.message): an unanchored search.
TestResourceNotFoundCaseSensitive(msg) ==
    \E i \in 1..Len(msg) :
        /\ LiteralAtCaseSensitive(msg, i, PatternHead)
        /\ \E n \in 1..Len(msg) :
              /\ i + Len(PatternHead) + n - 1 <= Len(msg)
              /\ \A d \in 0..(n - 1) : msg[i + Len(PatternHead) + d] \in Digits
              /\ LiteralAtCaseSensitive(msg, i + Len(PatternHead) + n,
                                        PatternTail)
TestResourceNotFound(msg) ==
    \E i \in 1..Len(msg) :
        /\ LiteralAt(msg, i, PatternHead)
        /\ \E n \in 1..Len(msg) :
              /\ i + Len(PatternHead) + n - 1 <= Len(msg)
              /\ \A d \in 0..(n - 1) : msg[i + Len(PatternHead) + d] \in Digits
              /\ LiteralAt(msg, i + Len(PatternHead) + n, PatternTail)

NoError == [defined |-> FALSE, message |-> <<>>]
ErrorOf(msg) == [defined |-> TRUE, message |-> msg]

\* this.state as the constructor sets it.
InitialState ==
    [hasError |-> FALSE, error |-> NoError, errorInfo |-> FALSE,
     expanded |-> FALSE, shouldReload |-> FALSE,
     reloadAfter |-> RELOAD_TIMEOUT_SEC]

NoSnap == [taken |-> FALSE, ticks |-> 0, reloadAfter |-> 0, reloads |-> 0]
Snap == [taken |-> TRUE, ticks |-> ticks, reloadAfter |-> bstate.reloadAfter,
         reloads |-> reloads]

BoundaryInit ==
    /\ mounted = TRUE
    /\ bstate = InitialState
    /\ timers = {}
    /\ toDispose = {}
    /\ nextId = 1
    /\ ticks = 0
    /\ reloads = 0
    /\ reloadTicks = <<>>
    /\ pageAlive = TRUE
    /\ clicks = 0
    /\ toggles = 0
    /\ stopSnap = NoSnap
    /\ unmountSnap = NoSnap

\* static getDerivedStateFromError(): { hasError: true }
GetDerivedStateFromError(st) == [st EXCEPT !.hasError = TRUE]

\* DisposableCollection.dispose(): every disposable pushed is disposed, here
\* window.clearInterval(id), and the collection is left empty.
DisposeAll ==
    /\ timers' = timers \ toDispose
    /\ toDispose' = {}

\* The boundary's own panels are on screen and the page is still there.
PanelShown == mounted /\ pageAlive /\ bstate.hasError

\* componentDidCatch(error, errorInfo), after getDerivedStateFromError: a
\* descendant threw while rendering. Descendants are rendered only while
\* hasError is false. startCountdown creates the interval and pushes its
\* disposer.
ComponentDidCatchLeavesHealthy(msg) ==
    /\ mounted /\ pageAlive /\ ~bstate.hasError
    /\ bstate' = [bstate EXCEPT !.error = ErrorOf(msg), !.errorInfo = TRUE]
    /\ UNCHANGED <<mounted, timers, toDispose, nextId, ticks, reloads,
                   reloadTicks, pageAlive, clicks, toggles, stopSnap,
                   unmountSnap>>
    /\ UNCHANGED storeVars
ComponentDidCatch(msg) ==
    /\ mounted /\ pageAlive /\ ~bstate.hasError
    /\ IF TestResourceNotFound(msg)
       THEN /\ bstate' = [GetDerivedStateFromError(bstate) EXCEPT
                             !.hasError = TRUE, !.error = ErrorOf(msg),
                             !.errorInfo = TRUE, !.shouldReload = TRUE]
            /\ timers' = timers \cup {nextId}
            /\ toDispose' = toDispose \cup {nextId}
            /\ nextId' = nextId + 1
       ELSE /\ bstate' = [GetDerivedStateFromError(bstate) EXCEPT
                             !.hasError = TRUE, !.error = ErrorOf(msg),
                             !.errorInfo = TRUE]
            /\ UNCHANGED <<timers, toDispose, nextId>>
    /\ UNCHANGED <<mounted, ticks, reloads, reloadTicks, pageAlive, clicks,
                   stopSnap, unmountSnap, toggles>>
    /\ UNCHANGED storeVars

\* The interval callback of startCountdown.
TickReloadsAtOrBelowZero(id) ==
    /\ id \in timers /\ pageAlive
    /\ bstate.reloadAfter > -MaxOvershoot
    /\ bstate' = [bstate EXCEPT !.reloadAfter = bstate.reloadAfter - 1]
    /\ ticks' = ticks + 1
    /\ IF bstate.reloadAfter - 1 <= 0
       THEN /\ reloads' = reloads + 1
            /\ reloadTicks' = Append(reloadTicks, ticks + 1)
       ELSE UNCHANGED <<reloads, reloadTicks>>
    /\ UNCHANGED <<mounted, timers, toDispose, nextId, pageAlive, clicks,
                   stopSnap, unmountSnap, toggles>>
    /\ UNCHANGED storeVars
TickNeverReloads(id) ==
    /\ id \in timers /\ pageAlive
    /\ bstate.reloadAfter > -MaxOvershoot
    /\ bstate' = [bstate EXCEPT !.reloadAfter = bstate.reloadAfter - 1]
    /\ ticks' = ticks + 1
    /\ UNCHANGED <<mounted, timers, toDispose, nextId, reloads, reloadTicks,
                   pageAlive, clicks, toggles, stopSnap, unmountSnap>>
    /\ UNCHANGED storeVars
Tick(id) ==
    /\ id \in timers /\ pageAlive
    /\ bstate.reloadAfter > -MaxOvershoot
    /\ bstate' = [bstate EXCEPT !.reloadAfter = bstate.reloadAfter - 1]
    /\ ticks' = ticks + 1
    /\ IF bstate.reloadAfter - 1 = 0
       THEN /\ reloads' = reloads + 1
            /\ reloadTicks' = Append(reloadTicks, ticks + 1)
       ELSE UNCHANGED <<reloads, reloadTicks>>
    /\ UNCHANGED <<mounted, timers, toDispose, nextId, pageAlive, clicks,
                   stopSnap, unmountSnap, toggles>>
    /\ UNCHANGED storeVars

\* render(): which parts are put on screen.
BuildReloadAlert(st) == st.shouldReload # FALSE
Render(st) ==
    IF ~st.hasError
    THEN [children |-> TRUE, errorAlert |-> FALSE, stack |-> FALSE,
          reloadAlert |-> FALSE]
    ELSE [children |-> FALSE, errorAlert |-> TRUE,
          stack |-> (st.expanded /\ st.errorInfo),
          reloadAlert |-> BuildReloadAlert(st)]

\* Click on "Reload now": handleReloadNow().
HandleReloadNow ==
    /\ PanelShown /\ Render(bstate).reloadAlert
    /\ clicks < MaxClicks
    /\ clicks' = clicks + 1
    /\ reloads' = reloads + 1
    /\ UNCHANGED <<mounted, bstate, timers, toDispose, nextId, ticks,
                   reloadTicks, pageAlive, stopSnap, unmountSnap, toggles>>
    /\ UNCHANGED storeVars

\* Click on "Stop countdown": handleStopCountdown().
HandleStopCountdownKeepsTimer ==
    /\ PanelShown /\ Render(bstate).reloadAlert
    /\ stopSnap' = IF stopSnap.taken THEN stopSnap ELSE Snap
    /\ UNCHANGED <<mounted, bstate, timers, toDispose, nextId, ticks, reloads,
                   reloadTicks, pageAlive, clicks, unmountSnap, toggles>>
    /\ UNCHANGED storeVars
HandleStopCountdown ==
    /\ PanelShown /\ Render(bstate).reloadAlert
    /\ DisposeAll
    /\ stopSnap' = IF stopSnap.taken THEN stopSnap ELSE Snap
    /\ UNCHANGED <<mounted, bstate, nextId, ticks, reloads, reloadTicks,
                   pageAlive, clicks, unmountSnap, toggles>>
    /\ UNCHANGED storeVars

\* Click on "View stack" / "Hide stack": handleToggleViewStack().
HandleToggleViewStackOnlyExpands ==
    /\ PanelShown
    /\ toggles < MaxToggles
    /\ bstate' = [bstate EXCEPT !.expanded = TRUE]
    /\ toggles' = toggles + 1
    /\ UNCHANGED <<mounted, timers, toDispose, nextId, ticks, reloads,
                   reloadTicks, pageAlive, clicks, stopSnap, unmountSnap>>
    /\ UNCHANGED storeVars
HandleToggleViewStack ==
    /\ PanelShown
    /\ toggles < MaxToggles
    /\ bstate' = [bstate EXCEPT !.expanded = ~bstate.expanded]
    /\ toggles' = toggles + 1
    /\ UNCHANGED <<mounted, timers, toDispose, nextId, ticks, reloads,
                   reloadTicks, pageAlive, clicks, stopSnap, unmountSnap>>
    /\ UNCHANGED storeVars

\* componentWillUnmount(): the subtree is torn down.
ComponentWillUnmountKeepsTimer ==
    /\ mounted /\ pageAlive
    /\ mounted' = FALSE
    /\ unmountSnap' = Snap
    /\ UNCHANGED <<bstate, timers, toDispose, nextId, ticks, reloads,
                   reloadTicks, pageAlive, clicks, stopSnap, toggles>>
    /\ UNCHANGED storeVars
ComponentWillUnmount ==
    /\ mounted /\ pageAlive
    /\ mounted' = FALSE
    /\ DisposeAll
    /\ unmountSnap' = Snap
    /\ UNCHANGED <<bstate, nextId, ticks, reloads, reloadTicks, pageAlive,
                   clicks, stopSnap, toggles>>
    /\ UNCHANGED storeVars

\* The navigation started by window.location.reload() replaces the document:
\* its timers and handlers are gone.
PageUnload ==
    /\ pageAlive /\ reloads > 0
    /\ pageAlive' = FALSE
    /\ timers' = {}
    /\ UNCHANGED <<mounted, bstate, toDispose, nextId, ticks, reloads,
                   reloadTicks, clicks, stopSnap, unmountSnap, toggles>>
    /\ UNCHANGED storeVars

BoundaryNext ==
    \/ \E msg \in Messages : ComponentDidCatch(msg)
    \/ \E id \in timers : Tick(id)
    \/ HandleReloadNow
    \/ HandleStopCountdown
    \/ HandleToggleViewStack
    \/ ComponentWillUnmount
    \/ PageUnload

(***************************************************************************)
(*                  PROPERTIES OF THE ERROR BOUNDARY                       *)
(***************************************************************************)

\* Neither Stop countdown, nor Reload now, nor unmount has happened.
Undisturbed == ~stopSnap.taken /\ ~unmountSnap.taken /\ clicks = 0

\* C6: after a chunk-load error is trapped, and without Stop countdown,
\* Reload now or unmount, reloadAfter counts down from 30 by one per tick, no
\* reload happens before the 30th tick, and from the 30th tick on the reload
\* has been triggered exactly once, by the 30th tick.
C6_ReloadOnThirtiethTick ==
    (bstate.shouldReload /\ Undisturbed)
    => /\ bstate.reloadAfter = 30 - ticks
       /\ ticks < 30 => (reloads = 0 /\ reloadTicks = <<>>)
       /\ ticks >= 30 => (reloads = 1 /\ reloadTicks = <<30>>)

\* C6's case: the timer has ticked past the 30th tick on a page that is still
\* there, undisturbed.
C6_Witness ==
    /\ bstate.shouldReload /\ Undisturbed
    /\ pageAlive /\ ticks > 30 /\ reloads = 1

\* C7: once Stop countdown has been clicked before the 30th tick, no tick
\* happens any more, reloadAfter keeps the value it had, the timer is gone and
\* the countdown never reloads the page.
C7_StopPreventsReload ==
    (stopSnap.taken /\ stopSnap.ticks < 30)
    => /\ ticks = stopSnap.ticks
       /\ bstate.reloadAfter = stopSnap.reloadAfter
       /\ timers = {}
       /\ reloadTicks = <<>>

\* C7's case: the countdown was stopped after some ticks, and the boundary
\* lived on: the stack was expanded afterwards.
C7_Witness ==
    /\ stopSnap.taken /\ stopSnap.ticks > 0 /\ stopSnap.ticks < 30
    /\ mounted /\ pageAlive /\ bstate.expanded

\* The messages of Messages that contain "loading chunk <digits> failed",
\* whatever the case of the letters.
ChunkLoadMessages == {MsgChunk42, MsgUpper, MsgEmbedded}

\* C8: shouldReload is true, and a timer was created, exactly when an error
\* was trapped whose message matches the pattern; after any other error no
\* timer exists, none has ticked and nothing has reloaded the page.
C8_CountdownOnlyForChunkErrors ==
    LET matches == bstate.hasError
                     /\ bstate.error.message \in ChunkLoadMessages IN
    /\ bstate.shouldReload <=> matches
    /\ nextId > 1 <=> matches
    /\ (matches /\ ~stopSnap.taken /\ mounted /\ pageAlive) => timers # {}
    /\ ~matches => (timers = {} /\ ticks = 0 /\ reloads = 0)

\* C8's case: an error with an upper-case chunk-load message was trapped and
\* the timer is armed.
C8_Witness ==
    /\ bstate.hasError /\ bstate.error = ErrorOf(MsgUpper)
    /\ bstate.shouldReload /\ timers # {}

\* C9: after componentWillUnmount no timer is left, no tick happens,
\* reloadAfter keeps its value and nothing reloads the page.
C9_UnmountReleasesTimer ==
    unmountSnap.taken
    => /\ timers = {}
       /\ ticks = unmountSnap.ticks
       /\ bstate.reloadAfter = unmountSnap.reloadAfter
       /\ reloads = unmountSnap.reloads

\* C9's case: the component was unmounted in the middle of a running
\* countdown.
C9_Witness ==
    /\ unmountSnap.taken /\ ~stopSnap.taken
    /\ unmountSnap.ticks > 0 /\ unmountSnap.ticks < 30
    /\ bstate.shouldReload

\* The countdown is active: its timer is armed.
CountdownActive == timers # {}

\* C10: without an error the boundary renders its children and nothing else;
\* with an error it renders the error panel and not the children, and the
\* countdown warning panel exactly when the countdown is active.
C10_RenderFollowsState ==
    (mounted /\ pageAlive)
    => /\ ~bstate.hasError
          => Render(bstate) = [children |-> TRUE, errorAlert |-> FALSE,
                               stack |-> FALSE, reloadAlert |-> FALSE]
       /\ bstate.hasError
          => /\ ~Render(bstate).children
             /\ Render(bstate).errorAlert
             /\ Render(bstate).reloadAlert <=> CountdownActive

\* C11: a click on View stack / Hide stack negates expanded and changes
\* nothing else of the boundary (hasError, error, shouldReload, reloadAfter,
\* the timer and its disposer); expanded is therefore true after an odd number
\* of clicks and back at its first value after every second click.
C11_ToggleOnlyFlipsExpanded ==
    /\ [][toggles' # toggles
          => /\ bstate' = [bstate EXCEPT !.expanded = ~bstate.expanded]
             /\ timers' = timers /\ toDispose' = toDispose
             /\ mounted' = mounted /\ pageAlive' = pageAlive
             /\ ticks' = ticks /\ reloads' = reloads]_vars
    /\ [](bstate.expanded <=> toggles % 2 = 1)

\* C11's case: the link was clicked twice during a running countdown and the
\* stack is hidden again.
C11_Witness ==
    /\ toggles = 2 /\ ~bstate.expanded
    /\ bstate.shouldReload /\ timers # {} /\ ticks > 0

\* C12: after Stop countdown the boundary still shows the error panel, and
\* the countdown warning panel is not rendered any more.
C12_StopRemovesWarningPanel ==
    (stopSnap.taken /\ mounted /\ pageAlive)
    => /\ bstate.hasError
       /\ Render(bstate).errorAlert
       /\ ~Render(bstate).reloadAlert

\* C13: the timer is released when reloadAfter reaches 0, so no tick fires
\* after the 30th and reloadAfter stays within 0..30.
C13_TimerReleasedAtZero ==
    /\ ticks <= 30
    /\ bstate.reloadAfter >= 0 /\ bstate.reloadAfter <= 30

\* C19: hasError is false at first, true as soon as an error has been
\* trapped, and once true it is true in every later state, whatever follows
\* (ticks, View stack, Stop countdown, Reload now, unmount).
C19_HasErrorNeverResets ==
    /\ ~bstate.hasError
    /\ [](bstate.error.defined <=> bstate.hasError)
    /\ [][bstate.hasError => bstate'.hasError]_vars

\* C19's case: after the error was trapped the timer ticked, the stack was
\* toggled, Reload now and Stop countdown were clicked.
C19_Witness ==
    /\ bstate.hasError
    /\ ticks > 0 /\ toggles > 0 /\ clicks > 0 /\ stopSnap.taken

\* C20: once the countdown is armed, the page reload is eventually triggered,
\* unless Stop countdown is clicked or the component is unmounted.
C20_CountdownEventuallyReloads ==
    [](( bstate.shouldReload /\ timers # {})
       => <>(reloads > 0 \/ stopSnap.taken \/ unmountSnap.taken))

\* C20's case: the countdown ran undisturbed to its end and reloaded the page.
C20_Witness ==
    /\ Undisturbed /\ bstate.shouldReload
    /\ reloadTicks = <<30>> /\ reloads = 1

(***************************************************************************)
(* The specifications.                                                     *)
(***************************************************************************)
Init == StoreInit /\ BoundaryInit
Next == StoreNext \/ BoundaryNext
StoreSpec == Init /\ [][StoreNext]_vars
\* The slice under its own two signals only.
KnownSpec == Init /\ [][KnownNext]_vars
BoundarySpec == Init /\ [][BoundaryNext]_vars
\* window.setInterval runs its callback again and again while the interval
\* exists: a tick that stays possible happens.
TimerSpec == BoundarySpec /\ WF_vars(\E id \in timers : Tick(id))
Spec == Init /\ [][Next]_vars

====
